---- MODULE Spec2Model ----
(***************************************************************************)
(* A model of the resumable batch scraper: BatchScraper.process_batches    *)
(* (scraper/src/batch_scraper.py) with the fetcher and extractor of        *)
(* MimeDBScraper (scraper/src/scrapers/mimedb.py), the JSON progress file  *)
(* and the SQLAlchemy session it writes through.                           *)
(*                                                                         *)
(* One behaviour is a sequence of invocations of the command line tool     *)
(* over one remote listing.  Identifiers are small integers.               *)
(***************************************************************************)
EXTENDS Integers, Sequences, FiniteSets, TLC

\* ------------------------------------------------------------- bounds
\* longest remote listing (number of identifiers the site lists)
MaxLen == 2
\* largest --batch-size tried
MaxBatch == 2
\* identifiers per listing page of the remote site
PageSize == 1

\* get_page(url, retries=3)
Retries == 3

\* identifiers: the listings with a failing network are one longer
Ids == 1..(MaxLen + 1)

VARIABLES
    \* --- the world outside the process
    listing,          \* the remote site's listing, in page order
    netFaults,        \* whether listing-page fetches may fail in this behaviour
    file,             \* the progress file: NoFile or the JSON object
    db,               \* committed rows of table bacteria: id -> "none" | "old" | "new"
    log_db,           \* committed ScrapeLog row of the current run
    \* --- one call of MimeDBScraper.get_page, attempt by attempt
    retries,          \* retries
    responses,        \* how the request of each attempt would end
    attempts,         \* number of requests made so far
    html_content,     \* "pending", or what get_page returned: "content" | "None"
    timeline,         \* the waits (time.sleep) and requests of the call, in order
    \* --- the persistence gateway on the rows of table bacteria, field by field
    bacteria,         \* the committed row of each identifier, or NoRow
    call,             \* the last call of save_bacteria or _save_batch_to_db
    \* --- the process
    reset_progress,   \* args.reset_progress
    max_bacteria,     \* max_bacteria of process_batches: None or an integer
    pc,               \* position in main / process_batches
    batch_size,       \* self.batch_size
    bacteria_ids,     \* bacteria_ids (after discovery and the limit)
    last_idx,         \* last_idx
    successful_ids,   \* successful_ids
    failed_ids,       \* failed_ids
    progress,         \* progress
    batch_idx,        \* batch_idx
    batch_to_process, \* batch_to_process
    item,             \* index of the next bacteria_id in batch_to_process
    batch_data,       \* batch_data
    local_successful, \* local_successful
    local_failed,     \* local_failed
    rec_idx,          \* index of the next record of batch_data in _save_batch_to_db
    pending,          \* identifiers with unflushed changes in self.db_session
    scrape_log,       \* self.scrape_log (in memory)
    \* --- what happened (history, read only by the properties)
    loaded,           \* the record _load_progress returned in this run
    fetched,          \* identifiers passed to scrape_bacteria in this in order
    exhausted,        \* identifiers for which a scrape_bacteria call found every attempt failing
    handed,           \* identifiers of the records handed to _save_batch_to_db in this run
    saved,            \* the records passed to _save_progress in this in order
    dbcalls,          \* number of _save_batch_to_db calls in this run
    db_begin,         \* db when the last _save_batch_to_db call began
    persist_result,   \* outcome of _save_batch_to_db in the current batch
    fault,            \* external fault of this run: "none" | "interrupt" | "commit"
    intr_batch,       \* the batch in which a fetch was interrupted, or -1
    failedIn,         \* batches of this run in which an item or the persistence failed
    checkpointed,     \* batches of this run whose checkpoint was written
    skippedB,         \* batches of this run skipped as fully processed
    prev              \* summary of the previous invocation: how it ended, what it
                      \* discovered, its batch size and, when it was interrupted in a
                      \* fetch without having skipped a batch, the batch of that fetch,
                      \* and the identifiers whose outcome that batch had decided

vars == << listing, netFaults, retries, responses, attempts, html_content, timeline,
           bacteria, call, reset_progress, max_bacteria,
           file, db, log_db, pc, batch_size, bacteria_ids,
           last_idx, successful_ids, failed_ids, progress, batch_idx,
           batch_to_process, item, batch_data, local_successful, local_failed,
           rec_idx, pending, scrape_log, loaded, fetched, exhausted, handed,
           saved, dbcalls, db_begin, persist_result, fault, intr_batch, failedIn,
           checkpointed, skippedB, prev >>

\* ------------------------------------------------------------ helpers
Range(s) == { s[i] : i \in 1..Len(s) }

Max(a, b) == IF a >= b THEN a ELSE b

Min(a, b) == IF a <= b THEN a ELSE b

\* list(a_set): the elements, each once (the order is immaterial to every reader)
RECURSIVE ListOf(_)
ListOf(S) ==
    IF S = {} THEN << >>
    ELSE LET m == CHOOSE x \in S : \A y \in S : x <= y
         IN << m >> \o ListOf(S \ {m})

\* bacteria_ids[a:b] with Python's 0-based, end-exclusive slice
Slice(s, a, b) == [ i \in 1..(b - a) |-> s[a + i] ]

\* a filter that forgets the failed identifiers
UnprocessedRetryFailed(s, succ, fail) == SelectSeq(s, LAMBDA x : x \notin succ)

\* a filter that forgets the successful identifiers
UnprocessedRedoDone(s, succ, fail) == SelectSeq(s, LAMBDA x : x \notin fail)

\* [bid for bid in batch_ids if bid not in successful_ids and bid not in failed_ids]
RECURSIVE Unprocessed(_, _, _)
Unprocessed(s, succ, fail) ==
    IF s = << >> THEN << >>
    ELSE (IF Head(s) \notin succ /\ Head(s) \notin fail THEN << Head(s) >> ELSE << >>)
         \o Unprocessed(Tail(s), succ, fail)

\* every listing up to renaming of identifiers: the first occurrences are 1, 2, ...
Canonical(s) ==
    \A i \in 1..Len(s) :
        \/ s[i] = 1
        \/ \E j \in 1..(i - 1) : s[j] = s[i] \/ s[j] = s[i] - 1

Listings ==
    UNION { { s \in [1..n -> Ids] : Canonical(s) } : n \in 0..MaxLen }

\* listings without repeats, up to one identifier more
DistinctListings == { [i \in 1..n |-> i] : n \in 0..(MaxLen + 1) }

\* ------------------------------------------------ MimeDBScraper (fetcher)
\* what one requests.get attempt can end in
AttemptOutcomes == {"200", "status", "error"}

\* get_page: the attempts made and whether content was returned (None otherwise)
RECURSIVE get_page_from(_, _)
get_page_from(outs, attempt) ==
    IF attempt > Retries THEN [content |-> FALSE, attempts |-> Retries]
    ELSE IF outs[attempt] = "200" THEN [content |-> TRUE, attempts |-> attempt]
    ELSE get_page_from(outs, attempt + 1)

get_page(outs) == get_page_from(outs, 1)

\* what get_page can return over all the ways its attempts can end
GetPageResults == { get_page(o) : o \in [1..Retries -> AttemptOutcomes] }

\* the same for a listing page: content or None
PageResults == { g.content : g \in GetPageResults }

\* the remote listing in pages
NumPages(l) == (Len(l) + PageSize - 1) \div PageSize

Page(l, p) == Slice(l, (p - 1) * PageSize, Min(p * PageSize, Len(l)))

\* get_bacteria_ids: the identifiers of every page whose fetch gave content, in order
RECURSIVE get_bacteria_ids_from(_, _, _)
get_bacteria_ids_from(l, ok, p) ==
    IF p > NumPages(l) THEN << >>
    ELSE (IF ok[p] THEN Page(l, p) ELSE << >>) \o get_bacteria_ids_from(l, ok, p + 1)

get_bacteria_ids(l, ok) == get_bacteria_ids_from(l, ok, 1)

\* what parse_bacteria_page can make of a fetched detail page
ParseOutcomes == {"data", "noid", "empty", "raise"}

\* ------------------------------------------------------ progress file
\* a file's content is the sequence of the pieces json.dump wrote: the braces and the
\* members, each a key with its value (the cursor as a list of one number)
Piece(key, value) == [k |-> key, v |-> value]

\* os.path.exists(self.progress_file) is false
NoFile == << Piece("absent", << >>) >>

ZeroProgress ==
    [last_processed_idx |-> -1, successful_ids |-> << >>, failed_ids |-> << >>]

\* json.dump(progress, f)
json_dump(p) ==
    << Piece("{", << >>),
       Piece("last_processed_idx", << p.last_processed_idx >>),
       Piece("successful_ids", p.successful_ids),
       Piece("failed_ids", p.failed_ids),
       Piece("}", << >>) >>

\* json.load(f) does not raise: one object, opened and closed
json_parses(t) ==
    /\ Len(t) >= 2
    /\ t[1].k = "{"
    /\ t[Len(t)].k = "}"
    /\ \A i \in 2..(Len(t) - 1) : t[i].k \notin {"{", "}", "absent"}

\* json.load(f): the dict of the members, the last one of a key winning
json_load(t) ==
    LET keys == { t[i].k : i \in 2..(Len(t) - 1) }
        last(key) == CHOOSE i \in 2..(Len(t) - 1) :
                        /\ t[i].k = key
                        /\ \A j \in (i + 1)..(Len(t) - 1) : t[j].k # key
    IN  [ key \in keys |->
            IF key = "last_processed_idx" THEN t[last(key)].v[1] ELSE t[last(key)].v ]

\* _load_progress
_load_progress(f) ==
    IF f = NoFile THEN ZeroProgress
    ELSE IF json_parses(f) THEN json_load(f)
    ELSE ZeroProgress

\* lines 98-100 find their keys in the loaded dict
HasKeys(p) == {"last_processed_idx", "successful_ids", "failed_ids"} \subseteq DOMAIN p

\* a dict that holds the outcomes of the current batch alone
ProgressDictOfBatch(idx, succ, fail) ==
    [last_processed_idx |-> idx,
     successful_ids |-> SelectSeq(local_successful, LAMBDA x : x \in succ),
     failed_ids |-> SelectSeq(local_failed \o local_successful, LAMBDA x : x \in fail)]

\* the dict process_batches builds for _save_progress
ProgressDict(idx, succ, fail) ==
    [last_processed_idx |-> idx, successful_ids |-> ListOf(succ),
     failed_ids |-> ListOf(fail)]

\* a save that opens the file for appending
_save_progress_append(f, p) == IF f = NoFile THEN json_dump(p) ELSE f \o json_dump(p)

\* _save_progress: open(..., 'w') and json.dump replace the file's content
_save_progress(f, p) == json_dump(p)

\* ------------------------------------------------- batch arithmetic
\* total_batches = (len(bacteria_ids) + batch_size - 1) // batch_size
TotalBatches(n, b) == (n + b - 1) \div b

\* a resume that starts over at the first batch
StartBatchZero(idx, b) == 0

\* start_batch = (last_idx + 1) // batch_size
StartBatch(idx, b) == (idx + 1) \div b

BatchStart(k, b) == k * b

BatchEnd(k, b, n) == Min(BatchStart(k, b) + b, n)

\* a checkpoint that records the position before the batch
CheckpointIdxBefore(k, b, n) == BatchStart(k, b) - 1

\* "last_processed_idx": batch_end - 1
CheckpointIdx(k, b, n) == BatchEnd(k, b, n) - 1

total_batches == TotalBatches(Len(bacteria_ids), batch_size)

start_batch == StartBatch(last_idx, batch_size)

batch_ids == Slice(bacteria_ids, BatchStart(batch_idx, batch_size),
                   BatchEnd(batch_idx, batch_size, Len(bacteria_ids)))

\* --------------------------------------------------------- the session
NewLog ==
    [end_time |-> FALSE, error_message |-> "null", total_urls |-> -1,
     successful_scrapes |-> 0, failed_scrapes |-> 0]

\* two pending inserts of one bacteria_id: the unique index refuses the flush
PendingConflict(pend, d) ==
    \E i, j \in 1..Len(pend) : i < j /\ pend[i] = pend[j] /\ d[pend[i]] = "none"

\* session.commit(): flush the pending rows and make them visible
Committed(pend, d) == [ i \in Ids |-> IF i \in Range(pend) THEN "new" ELSE d[i] ]

\* a rollback that keeps the pending changes in the session
RollbackKeeps(pend) == pend

\* session.rollback(): the pending changes are dropped
Rollback(pend) == << >>

\* scrape_bacteria, given what get_page returned and what the parser makes of the
\* content: None when get_page gives nothing, else what the parser returns
scrape_bacteria(bid, page, parse) ==
    IF ~page.content THEN [kind |-> "None", has_id |-> FALSE, bacteria_id |-> 0]
    ELSE IF parse = "raise" THEN [kind |-> "raise", has_id |-> FALSE, bacteria_id |-> 0]
    ELSE IF parse = "empty" THEN [kind |-> "empty", has_id |-> FALSE, bacteria_id |-> 0]
    ELSE IF parse = "noid" THEN [kind |-> "dict", has_id |-> FALSE, bacteria_id |-> 0]
    ELSE [kind |-> "dict", has_id |-> TRUE, bacteria_id |-> bid]

\* `if bacteria_data:` a returned, non-empty dict
Truthy(r) == r.kind = "dict"

\* max_bacteria = None, and max_bacteria = m
NoLimit == [given |-> FALSE, value |-> 0]

Limit(m) == [given |-> TRUE, value |-> m]

\* bacteria_ids[:m], Python's prefix slice (a negative m counts from the end)
Prefix(s, m) ==
    IF m >= 0 THEN SubSeq(s, 1, Min(m, Len(s))) ELSE SubSeq(s, 1, Max(Len(s) + m, 0))

\* lines 92-93: if max_bacteria and max_bacteria < len(bacteria_ids); None and 0 are
\* false
Limited(ids, mb) ==
    IF mb.given /\ mb.value # 0 /\ mb.value < Len(ids) THEN Prefix(ids, mb.value)
    ELSE ids

\* ---------------------------------------------------------------- Init
\* the summary of an invocation that never was
NoPrev ==
    [outcome |-> "none", ids |-> << >>, batch_size |-> 0, intr_batch |-> -1,
     lost |-> {}]

\* no call of get_page is followed attempt by attempt
FetcherIdle ==
    /\ retries = Retries
    /\ responses = [i \in 1..Retries |-> "200"]
    /\ attempts = 0
    /\ html_content = "None"
    /\ timeline = << >>

\* identifiers of the rows the gateway is followed on
RowIds == {"X001", "X002"}

\* no row of an identifier
NoRow == [name |-> "NULL", gram_stain |-> "NULL", created_at |-> "absent"]

NoCall ==
    [op |-> "none", duplicate_action |-> "none", data |-> << >>, failing |-> "never",
     before |-> [i \in RowIds |-> NoRow], ok |-> TRUE]

\* no call of the gateway is followed field by field
GatewayIdle ==
    /\ bacteria = [i \in RowIds |-> NoRow]
    /\ call = NoCall

InitWith(nf, listings, files) ==
    /\ listing \in listings
    /\ netFaults = nf
    /\ file \in files
    /\ db = [i \in Ids |-> "none"]
    /\ log_db = NewLog
    /\ reset_progress = FALSE
    /\ max_bacteria = NoLimit
    /\ pc = "idle"
    /\ batch_size = 1
    /\ bacteria_ids = << >>
    /\ last_idx = -1
    /\ successful_ids = {}
    /\ failed_ids = {}
    /\ progress = ZeroProgress
    /\ batch_idx = 0
    /\ batch_to_process = << >>
    /\ item = 1
    /\ batch_data = << >>
    /\ local_successful = << >>
    /\ local_failed = << >>
    /\ rec_idx = 1
    /\ pending = << >>
    /\ scrape_log = NewLog
    /\ loaded = ZeroProgress
    /\ fetched = << >>
    /\ exhausted = {}
    /\ handed = {}
    /\ saved = << >>
    /\ dbcalls = 0
    /\ db_begin = db
    /\ persist_result = "none"
    /\ fault = "none"
    /\ intr_batch = -1
    /\ failedIn = {}
    /\ checkpointed = {}
    /\ skippedB = {}
    /\ prev = NoPrev

Init == InitWith(FALSE, Listings, {NoFile}) /\ FetcherIdle /\ GatewayIdle

fetcherV == << retries, responses, attempts, html_content, timeline >>

gatewayV == << bacteria, call >>

\* what no step of main and process_batches changes
argsV == << reset_progress, max_bacteria >>

worldV == << listing, netFaults, fetcherV, gatewayV, argsV >>

batchV == << batch_to_process, item, batch_data, local_successful, local_failed >>

histV == << loaded, fetched, exhausted, handed, saved, dbcalls, db_begin,
            persist_result, fault, intr_batch, failedIn, checkpointed, skippedB, prev >>

\* ------------------------------------------------------------- actions
\* a reset that leaves the progress file in place
RemoveProgressKeeps(f, reset) == f

\* batch_scraper.py lines 324-325: os.remove(args.progress_file) under --reset-progress
RemoveProgress(f, reset) == IF reset THEN NoFile ELSE f

\* main: a new invocation, after the previous process has ended, with its arguments;
\* lines 324-325 remove the progress file under --reset-progress;
\* BatchScraper.__init__ adds and commits the ScrapeLog
StartRunArgs(sizes, resets, limits) ==
    /\ pc \in {"idle", "returned", "crashed"}
    /\ \E b \in sizes : batch_size' = b
    /\ \E r \in resets : reset_progress' = r
    /\ \E m \in limits : max_bacteria' = m
    /\ file' = RemoveProgress(file, reset_progress')
    /\ scrape_log' = NewLog
    /\ log_db' = NewLog
    /\ pending' = << >>
    /\ pc' = "discover"
    /\ prev' = IF pc = "idle" THEN NoPrev
               ELSE [outcome |-> IF pc = "returned" /\ scrape_log.error_message = "null"
                                 THEN "done" ELSE "ended",
                     ids |-> bacteria_ids, batch_size |-> batch_size,
                     intr_batch |-> IF skippedB = {} THEN intr_batch ELSE -1,
                     lost |-> IF intr_batch >= 0
                              THEN Range(local_successful) \cup Range(local_failed)
                              ELSE {}]
    /\ loaded' = ZeroProgress
    /\ fetched' = << >>
    /\ exhausted' = {}
    /\ handed' = {}
    /\ saved' = << >>
    /\ dbcalls' = 0
    /\ db_begin' = db
    /\ persist_result' = "none"
    /\ fault' = "none"
    /\ intr_batch' = -1
    /\ failedIn' = {}
    /\ checkpointed' = {}
    /\ skippedB' = {}
    /\ bacteria_ids' = << >>
    /\ last_idx' = -1
    /\ successful_ids' = {}
    /\ failed_ids' = {}
    /\ progress' = ZeroProgress
    /\ batch_idx' = 0
    /\ batch_to_process' = << >>
    /\ item' = 1
    /\ batch_data' = << >>
    /\ local_successful' = << >>
    /\ local_failed' = << >>
    /\ rec_idx' = 1
    /\ UNCHANGED << listing, netFaults, fetcherV, gatewayV, db >>

\* an invocation without --reset-progress and --max-bacteria
StartRunWith(sizes) == StartRunArgs(sizes, {FALSE}, {NoLimit})

\* python batch_scraper.py --batch-size b
StartRun == StartRunWith(1..MaxBatch)

\* process_batches, lines 88-94: bacteria_ids = self.get_bacteria_ids() and the limit
Discover ==
    /\ pc = "discover"
    /\ \E ok \in [1..NumPages(listing) -> PageResults] :
          /\ netFaults \/ \A p \in 1..NumPages(listing) : ok[p]
          /\ bacteria_ids' = Limited(get_bacteria_ids(listing, ok), max_bacteria)
    /\ pc' = "load"
    /\ UNCHANGED << worldV, file, db, log_db, batch_size, last_idx,
                    successful_ids, failed_ids, progress, batch_idx, batchV,
                    rec_idx, pending, scrape_log, histV >>

\* lines 97-106: load the progress and compute the starting batch
LoadProgress ==
    /\ pc = "load"
    /\ LET p == _load_progress(file) IN
          /\ HasKeys(p)
          /\ progress' = p
          /\ loaded' = p
          /\ last_idx' = p.last_processed_idx
          /\ successful_ids' = Range(p.successful_ids)
          /\ failed_ids' = Range(p.failed_ids)
          /\ batch_idx' = StartBatch(p.last_processed_idx, batch_size)
    /\ pc' = "loop"
    /\ UNCHANGED << worldV, file, db, log_db, batch_size, bacteria_ids, batchV,
                    rec_idx, pending, scrape_log, fetched, exhausted, handed,
                    saved, dbcalls, db_begin, persist_result, fault, intr_batch,
                    failedIn, checkpointed, skippedB, prev >>

\* a loop head that writes a checkpoint for a batch it skips
LoopHeadCheckpoints ==
    /\ pc = "loop"
    /\ IF batch_idx >= total_batches
       THEN /\ pc' = "finalize"
            /\ UNCHANGED << batch_idx, batchV, skippedB, persist_result, progress, file,
                            saved >>
       ELSE LET todo == Unprocessed(batch_ids, successful_ids, failed_ids) IN
            IF todo = << >>
            THEN /\ batch_idx' = batch_idx + 1
                 /\ skippedB' = skippedB \cup {batch_idx}
                 /\ progress' = ProgressDict(BatchEnd(batch_idx, batch_size,
                                                      Len(bacteria_ids)) - 1,
                                             successful_ids, failed_ids)
                 /\ file' = json_dump(progress')
                 /\ saved' = Append(saved, progress')
                 /\ pc' = "loop"
                 /\ UNCHANGED << batchV, persist_result >>
            ELSE /\ batch_to_process' = todo
                 /\ item' = 1
                 /\ batch_data' = << >>
                 /\ local_successful' = << >>
                 /\ local_failed' = << >>
                 /\ persist_result' = "none"
                 /\ pc' = "fetch"
                 /\ UNCHANGED << batch_idx, skippedB, progress, file, saved >>
    /\ UNCHANGED << worldV, db, log_db, batch_size, bacteria_ids, last_idx,
                    successful_ids, failed_ids, rec_idx, pending,
                    scrape_log, loaded, fetched, exhausted, handed, dbcalls,
                    db_begin, fault, intr_batch, failedIn, checkpointed, prev >>

\* lines 110-129: the loop head, the skip of a fully processed batch
LoopHead ==
    /\ pc = "loop"
    /\ IF batch_idx >= total_batches
       THEN /\ pc' = "finalize"
            /\ UNCHANGED << batch_idx, batchV, skippedB, persist_result >>
       ELSE LET todo == Unprocessed(batch_ids, successful_ids, failed_ids) IN
            IF todo = << >>
            THEN /\ batch_idx' = batch_idx + 1
                 /\ skippedB' = skippedB \cup {batch_idx}
                 /\ pc' = "loop"
                 /\ UNCHANGED << batchV, persist_result >>
            ELSE /\ batch_to_process' = todo
                 /\ item' = 1
                 /\ batch_data' = << >>
                 /\ local_successful' = << >>
                 /\ local_failed' = << >>
                 /\ persist_result' = "none"
                 /\ pc' = "fetch"
                 /\ UNCHANGED << batch_idx, skippedB >>
    /\ UNCHANGED << worldV, file, db, log_db, batch_size, bacteria_ids, last_idx,
                    successful_ids, failed_ids, progress, rec_idx, pending,
                    scrape_log, loaded, fetched, exhausted, handed, saved, dbcalls,
                    db_begin, fault, intr_batch, failedIn, checkpointed, prev >>

\* lines 131-141: one bacteria_id of batch_to_process; after the last one, line 144
\* (`if batch_data:`) and the call of _save_batch_to_db with its begin (line 206)
FetchItem ==
    /\ pc = "fetch"
    /\ LET bid == batch_to_process[item] IN
       \E page \in GetPageResults, parse \in ParseOutcomes :
          LET r == scrape_bacteria(bid, page, parse) IN
          /\ IF r.kind # "raise" /\ Truthy(r)
             THEN /\ batch_data' = Append(batch_data,
                                          [has_id |-> r.has_id, bacteria_id |-> r.bacteria_id])
                  /\ local_successful' = Append(local_successful, bid)
                  /\ UNCHANGED << local_failed, failedIn >>
             ELSE /\ local_failed' = Append(local_failed, bid)
                  /\ failedIn' = failedIn \cup {batch_idx}
                  /\ UNCHANGED << batch_data, local_successful >>
          /\ fetched' = Append(fetched, bid)
          /\ exhausted' = IF r.kind = "None" THEN exhausted \cup {bid} ELSE exhausted
    /\ item' = item + 1
    /\ IF item < Len(batch_to_process)
       THEN /\ pc' = "fetch"
            /\ UNCHANGED << rec_idx, dbcalls, db_begin, handed >>
       ELSE IF batch_data' = << >>
       THEN /\ pc' = "checkpoint"
            /\ UNCHANGED << rec_idx, dbcalls, db_begin, handed >>
       ELSE /\ pc' = "persist"
            /\ rec_idx' = 1
            /\ dbcalls' = dbcalls + 1
            /\ db_begin' = db
            /\ handed' = handed \cup Range(local_successful')
    /\ UNCHANGED << worldV, file, db, log_db, batch_size, bacteria_ids, last_idx,
                    successful_ids, failed_ids, progress, batch_idx, batch_to_process,
                    pending, scrape_log, loaded, saved, persist_result, fault,
                    intr_batch, checkpointed, skippedB, prev >>

\* a persistence failure after which the identifiers count as successful
SaveFailedCountsSuccess ==
    /\ pending' = Rollback(pending)
    /\ successful_ids' = successful_ids \cup Range(local_successful)
    /\ persist_result' = "failed"
    /\ failedIn' = failedIn \cup {batch_idx}
    /\ pc' = "checkpoint"
    /\ UNCHANGED << db, failed_ids, rec_idx >>

\* a persistence failure that ends the loop
SaveFailedStops ==
    /\ pending' = Rollback(pending)
    /\ failed_ids' = failed_ids \cup Range(local_successful)
    /\ persist_result' = "failed"
    /\ failedIn' = failedIn \cup {batch_idx}
    /\ pc' = "finalize"
    /\ UNCHANGED << db, successful_ids, rec_idx >>

\* lines 227-231 and 150-153: _save_batch_to_db rolls back and raises, process_batches
\* marks every locally successful identifier failed
SaveFailed ==
    /\ pending' = Rollback(pending)
    /\ failed_ids' = failed_ids \cup Range(local_successful)
    /\ persist_result' = "failed"
    /\ failedIn' = failedIn \cup {batch_idx}
    /\ pc' = "checkpoint"
    /\ UNCHANGED << db, successful_ids, rec_idx >>

\* lines 208-222: one record of batch_data; data["bacteria_id"] raises KeyError for a
\* record without the key; the query sees committed rows only (autoflush=False)
PersistRecord ==
    /\ pc = "persist"
    /\ rec_idx <= Len(batch_data)
    /\ IF ~batch_data[rec_idx].has_id
       THEN SaveFailed
       ELSE /\ pending' = Append(pending, batch_data[rec_idx].bacteria_id)
            /\ rec_idx' = rec_idx + 1
            /\ UNCHANGED << db, successful_ids, failed_ids, persist_result, failedIn, pc >>
    /\ UNCHANGED << worldV, file, log_db, batch_size, bacteria_ids, last_idx,
                    progress, batch_idx, batchV, scrape_log, loaded, fetched,
                    exhausted, handed, saved, dbcalls, db_begin, fault,
                    intr_batch, checkpointed, skippedB, prev >>

\* lines 224-225 and 147-149: the commit, then successful_ids.update(local_successful)
PersistCommit ==
    /\ pc = "persist"
    /\ rec_idx > Len(batch_data)
    /\ IF PendingConflict(pending, db)
       THEN SaveFailed
       ELSE /\ db' = Committed(pending, db)
            /\ pending' = << >>
            /\ successful_ids' = successful_ids \cup Range(local_successful)
            /\ persist_result' = "committed"
            /\ pc' = "checkpoint"
            /\ UNCHANGED << failed_ids, failedIn, rec_idx >>
    /\ UNCHANGED << worldV, file, log_db, batch_size, bacteria_ids, last_idx,
                    progress, batch_idx, batchV, scrape_log, loaded, fetched,
                    exhausted, handed, saved, dbcalls, db_begin, fault,
                    intr_batch, checkpointed, skippedB, prev >>

\* a database error (an Exception) at begin, at a query or at the commit
PersistError ==
    /\ pc = "persist"
    /\ SaveFailed
    /\ UNCHANGED << worldV, file, log_db, batch_size, bacteria_ids, last_idx,
                    progress, batch_idx, batchV, scrape_log, loaded, fetched,
                    exhausted, handed, saved, dbcalls, db_begin, fault,
                    intr_batch, checkpointed, skippedB, prev >>

\* lines 155-164: failed_ids.update(local_failed) and the per-batch checkpoint
Checkpoint ==
    /\ pc = "checkpoint"
    /\ failed_ids' = failed_ids \cup Range(local_failed)
    /\ LET p == ProgressDict(CheckpointIdx(batch_idx, batch_size, Len(bacteria_ids)),
                             successful_ids, failed_ids') IN
          /\ progress' = p
          /\ file' = _save_progress(file, p)
          /\ saved' = Append(saved, p)
    /\ checkpointed' = checkpointed \cup {batch_idx}
    /\ pc' = "logupdate"
    /\ UNCHANGED << worldV, db, log_db, batch_size, bacteria_ids, last_idx,
                    successful_ids, batch_idx, batchV, rec_idx, pending,
                    scrape_log, loaded, fetched, exhausted, handed, dbcalls,
                    db_begin, persist_result, fault, intr_batch, failedIn,
                    skippedB, prev >>

\* self.db_session.commit() of the ScrapeLog: whatever is pending goes with it
CommitLog(log) ==
    /\ db' = Committed(pending, db)
    /\ pending' = << >>
    /\ log_db' = log

\* counts of the batch alone
WithCountsOfBatch(log) ==
    [log EXCEPT !.successful_scrapes = Len(local_successful),
                !.failed_scrapes = Len(local_failed)]

\* the counts of lines 171-172 and 178-179
WithCounts(log) ==
    [log EXCEPT !.successful_scrapes = Cardinality(successful_ids),
                !.failed_scrapes = Cardinality(failed_ids)]

\* lines 176-179
Finalized(log) ==
    [WithCounts(log) EXCEPT !.end_time = TRUE, !.total_urls = Len(bacteria_ids)]

\* a final record that writes back what was loaded
final_progress_stale ==
    ProgressDict(last_idx, Range(loaded.successful_ids), Range(loaded.failed_ids))

\* a final record that claims the batch under way
final_progress_ahead ==
    ProgressDict(Max(last_idx, CheckpointIdx(batch_idx, batch_size, Len(bacteria_ids))),
                 successful_ids, failed_ids)

\* final_progress of lines 196-200
final_progress ==
    ProgressDict(Max(last_idx, progress.last_processed_idx), successful_ids, failed_ids)

\* lines 194-201: the finally clause
FinalFlush ==
    /\ file' = _save_progress(file, final_progress)
    /\ saved' = Append(saved, final_progress)

\* an except clause (lines 184-188, or 189-193) and then the finally clause; when the
\* handler's own commit raises, the exception leaves process_batches
Aborting(log, msg, commit_ok) ==
    /\ scrape_log' = [log EXCEPT !.end_time = TRUE, !.error_message = msg]
    /\ IF commit_ok /\ ~PendingConflict(pending, db)
       THEN CommitLog(scrape_log') /\ pc' = "returned"
       ELSE UNCHANGED << db, pending, log_db >> /\ pc' = "crashed"
    /\ FinalFlush

\* lines 170-173: the running counts of the ScrapeLog
LogUpdate ==
    /\ pc = "logupdate"
    /\ IF PendingConflict(pending, db)
       THEN /\ Aborting(WithCounts(scrape_log), "error", FALSE)
            /\ UNCHANGED batch_idx
       ELSE /\ scrape_log' = WithCounts(scrape_log)
            /\ CommitLog(scrape_log')
            /\ batch_idx' = batch_idx + 1
            /\ pc' = "loop"
            /\ UNCHANGED << file, saved >>
    /\ UNCHANGED << worldV, batch_size, bacteria_ids, last_idx, successful_ids,
                    failed_ids, progress, batchV, rec_idx, loaded, fetched,
                    exhausted, handed, dbcalls, db_begin, persist_result, fault,
                    intr_batch, failedIn, checkpointed, skippedB, prev >>

\* lines 175-182, then the finally clause
Finalize ==
    /\ pc = "finalize"
    /\ IF PendingConflict(pending, db)
       THEN Aborting(Finalized(scrape_log), "error", FALSE)
       ELSE /\ scrape_log' = Finalized(scrape_log)
            /\ CommitLog(scrape_log')
            /\ FinalFlush
            /\ pc' = "returned"
    /\ UNCHANGED << worldV, batch_size, bacteria_ids, last_idx, successful_ids,
                    failed_ids, progress, batch_idx, batchV, rec_idx, loaded,
                    fetched, exhausted, handed, dbcalls, db_begin, persist_result,
                    fault, intr_batch, failedIn, checkpointed, skippedB, prev >>

\* the commit of line 173 or 180 raises (the database is unreachable): the handler
\* of lines 189-193, whose commit may raise again, and the finally clause
CommitFault ==
    /\ pc \in {"logupdate", "finalize"}
    /\ fault = "none"
    /\ fault' = "commit"
    /\ \E commit_ok \in BOOLEAN :
          Aborting(IF pc = "logupdate" THEN WithCounts(scrape_log)
                   ELSE Finalized(scrape_log), "error", commit_ok)
    /\ UNCHANGED << worldV, batch_size, bacteria_ids, last_idx, successful_ids,
                    failed_ids, progress, batch_idx, batchV, rec_idx, loaded,
                    fetched, exhausted, handed, dbcalls, db_begin, persist_result,
                    intr_batch, failedIn, checkpointed, skippedB, prev >>

\* the places inside the try of line 108
TryBlock == {"loop", "fetch", "persist", "checkpoint", "logupdate", "finalize"}

\* lines 88-106, before the try
BeforeTry == {"discover", "load"}

\* Ctrl-C inside the try: `except KeyboardInterrupt` (lines 184-188), then finally
Interrupt ==
    /\ pc \in TryBlock
    /\ fault = "none"
    /\ fault' = "interrupt"
    /\ intr_batch' = IF pc = "fetch" THEN batch_idx ELSE -1
    /\ Aborting(scrape_log, "Interrupted by user", TRUE)
    /\ UNCHANGED << worldV, batch_size, bacteria_ids, last_idx, successful_ids,
                    failed_ids, progress, batch_idx, batchV, rec_idx, loaded,
                    fetched, exhausted, handed, dbcalls, db_begin, persist_result,
                    failedIn, checkpointed, skippedB, prev >>

\* Ctrl-C in lines 88-106: nothing catches it, it leaves process_batches at once
InterruptEarly ==
    /\ pc \in BeforeTry
    /\ fault = "none"
    /\ fault' = "interrupt"
    /\ pc' = "crashed"
    /\ UNCHANGED << worldV, file, db, log_db, batch_size, bacteria_ids, last_idx,
                    successful_ids, failed_ids, progress, batch_idx, batchV, rec_idx,
                    pending, scrape_log, loaded, fetched, exhausted, handed, saved,
                    dbcalls, db_begin, persist_result, intr_batch, failedIn,
                    checkpointed, skippedB, prev >>

Next ==
    \/ StartRun
    \/ Discover
    \/ LoadProgress
    \/ LoopHead
    \/ FetchItem
    \/ PersistRecord
    \/ PersistCommit
    \/ PersistError
    \/ Checkpoint
    \/ LogUpdate
    \/ Finalize
    \/ CommitFault
    \/ Interrupt
    \/ InterruptEarly

Spec == Init /\ [][Next]_vars

\* the same program when fetches of listing pages may fail (get_bacteria_ids then
\* skips the page)
InitDisc == InitWith(TRUE, DistinctListings, {NoFile}) /\ FetcherIdle /\ GatewayIdle

\* two invocations, each with any batch size up to one more, and no other fault
StartRunDisc == prev.outcome = "none" /\ StartRunWith(1..(MaxBatch + 1))

NextDisc ==
    \/ StartRunDisc
    \/ Discover
    \/ LoadProgress
    \/ LoopHead
    \/ FetchItem
    \/ PersistRecord
    \/ PersistCommit
    \/ PersistError
    \/ Checkpoint
    \/ LogUpdate
    \/ Finalize

SpecDisc == InitDisc /\ [][NextDisc]_vars

\* ------------------------------------------------- invocations with --reset-progress
\* python batch_scraper.py --batch-size b [--reset-progress]
StartRunReset == StartRunArgs(1..MaxBatch, BOOLEAN, {NoLimit})

NextReset ==
    \/ StartRunReset
    \/ Discover
    \/ LoadProgress
    \/ LoopHead
    \/ FetchItem
    \/ PersistRecord
    \/ PersistCommit
    \/ PersistError
    \/ Checkpoint
    \/ LogUpdate
    \/ Finalize
    \/ Interrupt

SpecReset == Init /\ [][NextReset]_vars

\* ------------------------------------------------- invocations with --max-bacteria
\* the values of --max-bacteria: none, or an integer from -1 to past the longest listing
Limits == {NoLimit} \cup { Limit(m) : m \in (-1)..(MaxLen + 1) }

\* python batch_scraper.py --batch-size b [--max-bacteria m]
StartRunLimit == StartRunArgs(1..MaxBatch, {FALSE}, Limits)

NextLimit ==
    \/ StartRunLimit
    \/ Discover
    \/ LoadProgress
    \/ LoopHead
    \/ FetchItem
    \/ PersistRecord
    \/ PersistCommit
    \/ PersistError
    \/ Checkpoint
    \/ LogUpdate
    \/ Finalize

SpecLimit == Init /\ [][NextLimit]_vars

\* ------------------------------------------- the progress store under faults
\* what the progress file may hold before the first invocation: nothing, an empty
\* file, a cut-off text, the object {} and an object without the two lists
StoreFiles ==
    { NoFile,
      << >>,
      << Piece("{", << >>) >>,
      << Piece("{", << >>), Piece("}", << >>) >>,
      << Piece("{", << >>), Piece("last_processed_idx", << 0 >>), Piece("}", << >>) >> }

\* lines 98-100 on a dict without the keys: the KeyError is raised before the try of
\* line 108 and leaves process_batches
LoadProgressError ==
    /\ pc = "load"
    /\ ~HasKeys(_load_progress(file))
    /\ fault' = "load"
    /\ pc' = "crashed"
    /\ UNCHANGED << worldV, file, db, log_db, batch_size, bacteria_ids, last_idx,
                    successful_ids, failed_ids, progress, batch_idx, batchV, rec_idx,
                    pending, scrape_log, loaded, fetched, exhausted, handed, saved,
                    dbcalls, db_begin, persist_result, intr_batch, failedIn,
                    checkpointed, skippedB, prev >>

\* the process is killed inside _save_progress (lines 81-82) of a checkpoint: open(...,
\* 'w') has emptied the file and json.dump has written some of its pieces
SaveKilled ==
    /\ pc = "checkpoint"
    /\ fault = "none"
    /\ LET p == ProgressDict(CheckpointIdx(batch_idx, batch_size, Len(bacteria_ids)),
                             successful_ids, failed_ids \cup Range(local_failed)) IN
          /\ saved' = Append(saved, p)
          /\ \E n \in 0..(Len(json_dump(p)) - 1) : file' = SubSeq(json_dump(p), 1, n)
    /\ fault' = "kill"
    /\ pc' = "crashed"
    /\ UNCHANGED << worldV, db, log_db, batch_size, bacteria_ids, last_idx,
                    successful_ids, failed_ids, progress, batch_idx, batchV, rec_idx,
                    pending, scrape_log, loaded, fetched, exhausted, handed, dbcalls,
                    db_begin, persist_result, intr_batch, failedIn, checkpointed,
                    skippedB, prev >>

InitStore == InitWith(FALSE, Listings, StoreFiles) /\ FetcherIdle /\ GatewayIdle

NextStore ==
    \/ StartRun
    \/ Discover
    \/ LoadProgress
    \/ LoadProgressError
    \/ LoopHead
    \/ FetchItem
    \/ PersistRecord
    \/ PersistCommit
    \/ PersistError
    \/ Checkpoint
    \/ SaveKilled
    \/ LogUpdate
    \/ Finalize

SpecStore == InitStore /\ [][NextStore]_vars

\* ------------------------------------------------ get_page, attempt by attempt
\* everything of the process but the fetcher
processV == << argsV, file, db, log_db, pc, batch_size, bacteria_ids, last_idx,
               successful_ids, failed_ids, progress, batch_idx, batchV, rec_idx,
               pending, scrape_log, histV >>

\* an attempt that goes on after a 200
GetPageAttemptDeaf ==
    /\ html_content = "pending"
    /\ attempts < retries
    /\ attempts' = attempts + 1
    /\ html_content' = "pending"
    /\ timeline' = timeline \o << "sleep", "request" >>
                     \o (IF responses[attempts + 1] = "200" THEN << >> ELSE << "sleep" >>)
    /\ UNCHANGED << listing, netFaults, retries, responses, gatewayV, processV >>

\* an attempt that waits only after a failure
GetPageAttemptUnspaced ==
    /\ html_content = "pending"
    /\ attempts < retries
    /\ attempts' = attempts + 1
    /\ html_content' = IF responses[attempts + 1] = "200" THEN "content" ELSE "pending"
    /\ timeline' = timeline \o << "request" >>
                     \o (IF responses[attempts + 1] = "200" THEN << >> ELSE << "sleep" >>)
    /\ UNCHANGED << listing, netFaults, retries, responses, gatewayV, processV >>

\* lines 37-54: one turn of `for attempt in range(retries)`: the wait of line 39 and
\* the request; a 200 returns response.text, another status and an Exception are
\* logged, followed by the wait of line 51 or 54, and the loop goes on
GetPageAttempt ==
    /\ html_content = "pending"
    /\ attempts < retries
    /\ attempts' = attempts + 1
    /\ html_content' = IF responses[attempts + 1] = "200" THEN "content" ELSE "pending"
    /\ timeline' = timeline \o << "sleep", "request" >>
                     \o (IF responses[attempts + 1] = "200" THEN << >> ELSE << "sleep" >>)
    /\ UNCHANGED << listing, netFaults, retries, responses, gatewayV, processV >>

\* lines 56-57: the loop is exhausted, return None
GetPageGiveUp ==
    /\ html_content = "pending"
    /\ attempts >= retries
    /\ html_content' = "None"
    /\ UNCHANGED << listing, netFaults, retries, responses, attempts, timeline,
                    gatewayV, processV >>

\* a call of get_page with any number of retries up to the default and any responses
InitFetch ==
    /\ InitWith(FALSE, {<< >>}, {NoFile})
    /\ retries \in 0..Retries
    /\ responses \in [1..Retries -> AttemptOutcomes]
    /\ attempts = 0
    /\ html_content = "pending"
    /\ timeline = << >>
    /\ GatewayIdle

NextFetch ==
    \/ GetPageAttempt
    \/ GetPageGiveUp

\* the interpreter goes on executing the loop
SpecFetch == InitFetch /\ [][NextFetch]_vars /\ WF_vars(NextFetch)

\* ------------------------------------- the persistence gateway, field by field
\* two of the columns of Bacteria besides bacteria_id, and values the extractor gives
Columns == {"name", "gram_stain"}

ColumnValues(c) == IF c = "name" THEN {"A", "B"} ELSE {"P"}

\* the dict of parse_bacteria_page with the keys that are not "absent"
AttributeMap(i, n, g) ==
    LET val(k) == IF k = "bacteria_id" THEN i ELSE IF k = "name" THEN n ELSE g
        keys == { k \in Columns \cup {"bacteria_id"} : val(k) # "absent" }
    IN  [ k \in keys |-> val(k) ]

AttributeMaps ==
    { AttributeMap(i, n, g) : i \in RowIds \cup {"absent"},
                              n \in ColumnValues("name") \cup {"absent"},
                              g \in ColumnValues("gram_stain") \cup {"absent"} }

\* --duplicate-action, and a value that is none of the three
DuplicateActions == {"update", "skip", "force", "other"}

\* where the database raises in a call: at the query, at the first or the second commit
FailPoints == {"never", "query", "commit1", "commit2"}

\* the table as a call can find it: per bacteria_id (unique, bacteria.py line 15) no
\* row or one row created earlier, any column NULL or set
Stores ==
    [ RowIds -> {NoRow} \cup [name : ColumnValues("name") \cup {"NULL"},
                             gram_stain : ColumnValues("gram_stain") \cup {"NULL"},
                             created_at : {"old"}] ]

\* Bacteria(**data): a column without a key is NULL, created_at is now
NewRow(data) ==
    [name |-> IF "name" \in DOMAIN data THEN data["name"] ELSE "NULL",
     gram_stain |-> IF "gram_stain" \in DOMAIN data THEN data["gram_stain"] ELSE "NULL",
     created_at |-> "new"]

\* an update that sets every column from the dict
OverwrittenWhole(row, data) == [NewRow(data) EXCEPT !.created_at = row.created_at]

\* for key, value in data.items(): if hasattr(existing, key): setattr(existing, key, value)
Overwritten(row, data) ==
    [row EXCEPT !.name = IF "name" \in DOMAIN data THEN data["name"] ELSE @,
                !.gram_stain = IF "gram_stain" \in DOMAIN data THEN data["gram_stain"] ELSE @]

\* what a call leaves committed and whether it succeeded
Result(st, ok) == [rows |-> st, ok |-> ok]

\* a skip that updates
SkipExistingUpdates(st, data, failing) ==
    Result([st EXCEPT ![data["bacteria_id"]] = Overwritten(@, data)], TRUE)

\* mimedb.py 208-210: skip
SkipExisting(st, data, failing) == Result(st, TRUE)

\* mimedb.py 212-220 and 227-234: update (also for an unknown action); on an exception
\* of the commit lines 243-246 roll back and return False
UpdateExisting(st, data, failing) ==
    IF failing = "commit1" THEN Result(st, FALSE)
    ELSE Result([st EXCEPT ![data["bacteria_id"]] = Overwritten(@, data)], TRUE)

\* mimedb.py 236-241: add and commit; on an exception lines 243-246
InsertNew(st, data, failed) ==
    IF failed THEN Result(st, FALSE)
    ELSE Result([st EXCEPT ![data["bacteria_id"]] = NewRow(data)], TRUE)

\* a force that updates the row in place
ForceInsertInPlace(st, data, failing) ==
    IF failing \in {"commit1", "commit2"} THEN Result(st, FALSE)
    ELSE Result([st EXCEPT ![data["bacteria_id"]] = Overwritten(@, data)], TRUE)

\* mimedb.py 222-225, then 236-241: delete and commit, then add and commit
ForceInsert(st, data, failing) ==
    IF failing = "commit1" THEN Result(st, FALSE)
    ELSE InsertNew([st EXCEPT ![data["bacteria_id"]] = NoRow], data, failing = "commit2")

\* MimeDBScraper.save_bacteria; bacteria_data["bacteria_id"] of line 202 raises KeyError
\* for a dict without the key, which lines 243-246 turn into False
save_bacteria(st, bacteria_data, duplicate_action, failing) ==
    IF "bacteria_id" \notin DOMAIN bacteria_data \/ failing = "query"
    THEN Result(st, FALSE)
    ELSE IF st[bacteria_data["bacteria_id"]] # NoRow
    THEN IF duplicate_action = "skip" THEN SkipExisting(st, bacteria_data, failing)
         ELSE IF duplicate_action = "force" THEN ForceInsert(st, bacteria_data, failing)
         ELSE UpdateExisting(st, bacteria_data, failing)
    ELSE InsertNew(st, bacteria_data, failing = "commit1")

\* batch_scraper.py 208-222 over batch_data: the rows as the session holds them, the
\* identifiers added, and whether data["bacteria_id"] raised; the query of line 210
\* finds committed rows only
RECURSIVE batch_apply(_, _, _, _)
batch_apply(st, work, added, rest) ==
    IF rest = << >> THEN [work |-> work, added |-> added, raised |-> FALSE]
    ELSE LET data == Head(rest) IN
         IF "bacteria_id" \notin DOMAIN data
         THEN [work |-> work, added |-> added, raised |-> TRUE]
         ELSE LET id == data["bacteria_id"] IN
              IF st[id] # NoRow
              THEN batch_apply(st, [work EXCEPT ![id] = Overwritten(@, data)], added,
                               Tail(rest))
              ELSE batch_apply(st, [work EXCEPT ![id] = NewRow(data)],
                               Append(added, id), Tail(rest))

\* BatchScraper._save_batch_to_db on the rows: commit, or roll back and raise
\* (ok = FALSE) when a line raised, the commit was refused for two added rows of one
\* bacteria_id, or the database failed
_save_batch_to_db(st, batch, failing) ==
    LET r == batch_apply(st, st, << >>, batch)
        conflict == \E i, j \in 1..Len(r.added) : i < j /\ r.added[i] = r.added[j]
    IN  IF failing # "never" \/ r.raised \/ conflict THEN Result(st, FALSE)
        ELSE Result(r.work, TRUE)

\* the batches handed to _save_batch_to_db: one or two records
Batches ==
    { << d >> : d \in AttributeMaps } \cup { << d, e >> : d, e \in AttributeMaps }

\* a call of save_bacteria with any dict, action and database failure
SaveBacteria ==
    /\ call = NoCall
    /\ \E data \in AttributeMaps, act \in DuplicateActions, f \in FailPoints :
          LET before == bacteria
              r == save_bacteria(before, data, act, f)
          IN  /\ bacteria' = r.rows
              /\ call' = [op |-> "save_bacteria", duplicate_action |-> act,
                          data |-> << data >>, failing |-> f, before |-> before,
                          ok |-> r.ok]
    /\ UNCHANGED << listing, netFaults, fetcherV, processV >>

\* a call of _save_batch_to_db with any batch and database failure
SaveBatch ==
    /\ call = NoCall
    /\ \E batch \in Batches, f \in {"never", "query", "commit1"} :
          LET before == bacteria
              r == _save_batch_to_db(before, batch, f)
          IN  /\ bacteria' = r.rows
              /\ call' = [op |-> "_save_batch_to_db", duplicate_action |-> "update",
                          data |-> batch, failing |-> f, before |-> before,
                          ok |-> r.ok]
    /\ UNCHANGED << listing, netFaults, fetcherV, processV >>

InitGateway ==
    /\ InitWith(FALSE, {<< >>}, {NoFile})
    /\ FetcherIdle
    /\ bacteria \in Stores
    /\ call = NoCall

NextGateway ==
    \/ SaveBacteria
    \/ SaveBatch

SpecGateway == InitGateway /\ [][NextGateway]_vars

\* ========================================================== properties
\* the record in the progress file
OnDisk == json_load(file)

\* the sets of a progress record
SuccOf(r) == Range(r.successful_ids)

FailOf(r) == Range(r.failed_ids)

MarkedIn(r) == SuccOf(r) \cup FailOf(r)

\* the identifiers at the 0-based positions a..b-1 of the discovered sequence
IdsAt(a, b) == { bacteria_ids[p + 1] : p \in a..(Min(b, Len(bacteria_ids)) - 1) }

\* this invocation repeats the discovery and the batch size of the previous one
SameAsPrev == bacteria_ids = prev.ids /\ batch_size = prev.batch_size

\* line 100 has been passed in this invocation
Loaded == pc \notin {"idle", "discover", "load"} /\ (pc = "crashed" => saved # << >>)

\* the steps of a run that no fault takes
RunStep ==
    \/ LoopHead
    \/ FetchItem
    \/ PersistRecord
    \/ PersistCommit
    \/ Checkpoint
    \/ LogUpdate
    \/ Finalize

\* the batch k of this invocation has been fetched to its end
FetchedThrough(k) ==
    \/ batch_idx > k
    \/ batch_idx = k /\ pc \in {"persist", "checkpoint", "logupdate"}

\* C1: idempotent resume.  After a run that completed, a run over the same discovered
\* sequence with the same batch size and the file the first one left calls
\* scrape_bacteria for nothing, never calls _save_batch_to_db, and every record it
\* writes, and so the file it leaves, has the cursor and the two sets it loaded.
C1_IdempotentResume ==
    (Loaded /\ prev.outcome = "done" /\ SameAsPrev) =>
        /\ fetched = << >>
        /\ dbcalls = 0
        /\ \A k \in 1..Len(saved) :
              /\ saved[k].last_processed_idx = loaded.last_processed_idx
              /\ SuccOf(saved[k]) = SuccOf(loaded)
              /\ FailOf(saved[k]) = FailOf(loaded)
        /\ file # NoFile
        /\ OnDisk.last_processed_idx = loaded.last_processed_idx
        /\ SuccOf(OnDisk) = SuccOf(loaded)
        /\ FailOf(OnDisk) = FailOf(loaded)

\* the second run has ended, went through a batch (one the batch size does not divide
\* evenly into the cursor) and had a failed identifier to leave alone
C1_Witness ==
    /\ prev.outcome = "done"
    /\ SameAsPrev
    /\ pc = "returned"
    /\ fault = "none"
    /\ skippedB # {}
    /\ FailOf(loaded) # {}
    /\ Len(saved) = 1

\* C2: no double-processing.  No identifier of successful_ids or failed_ids of the
\* record loaded at the start of a run is passed to scrape_bacteria in that run.
C2_NoDoubleProcessing ==
    \A i \in 1..Len(fetched) : fetched[i] \notin MarkedIn(loaded)

\* a run fetched through its first batch, which holds an identifier the loaded record
\* marks next to one it does not
C2_Witness ==
    /\ fetched # << >>
    /\ batch_idx = 0
    /\ pc = "logupdate"
    /\ Range(batch_ids) \cap MarkedIn(loaded) # {}

\* C3: batch atomicity on a persistence failure.  When _save_batch_to_db raised for the
\* batch, the table is as it was when the call began, no identifier of the batch's
\* records is in successful_ids, all of them are in failed_ids, and so they are in the
\* record the checkpoint of that batch wrote.
C3_BatchAtomicity ==
    persist_result = "failed" =>
        /\ db = db_begin
        /\ Range(local_successful) \cap successful_ids = {}
        /\ Range(local_successful) \subseteq failed_ids
        /\ batch_idx \in checkpointed =>
              /\ Range(local_successful) \subseteq FailOf(OnDisk)
              /\ Range(local_successful) \cap SuccOf(OnDisk) = {}

\* a batch of two records failed after its first record was added, and the run went on
\* past the commit of the ScrapeLog
C3_Witness ==
    /\ persist_result = "failed"
    /\ Len(batch_data) = 2
    /\ rec_idx = 2
    /\ pc = "loop"

\* C4: disjoint outcomes.  From a loaded record with disjoint sets, every record the run
\* writes has disjoint successful_ids and failed_ids.
C4_DisjointOutcomes ==
    (SuccOf(loaded) \cap FailOf(loaded) = {}) =>
        \A k \in 1..Len(saved) : SuccOf(saved[k]) \cap FailOf(saved[k]) = {}

\* C5: no gaps below the cursor.  In every record written, and in the file between the
\* runs, each identifier at a position up to last_processed_idx is in successful_ids or
\* in failed_ids.
C5_NoGaps ==
    /\ \A k \in 1..Len(saved) :
          IdsAt(0, saved[k].last_processed_idx + 1) \subseteq MarkedIn(saved[k])
    /\ file # NoFile =>
          \A p \in 0..OnDisk.last_processed_idx :
              p < Len(listing) => listing[p + 1] \in MarkedIn(OnDisk)

\* a run that resumed an interrupted one with another batch size, fetched, and wrote a
\* checkpoint and the final record
C5_Witness ==
    /\ prev.outcome = "ended"
    /\ prev.batch_size # batch_size
    /\ loaded.last_processed_idx = 0
    /\ fetched # << >>
    /\ Len(saved) = 2

C8_FetchExhaustion ==
    /\ \A o \in [1..Retries -> AttemptOutcomes \ {"200"}], parse \in ParseOutcomes :
          /\ get_page(o) = [content |-> FALSE, attempts |-> Retries]
          /\ scrape_bacteria(1, get_page(o), parse).kind = "None"
    /\ (pc \in {"logupdate", "loop", "finalize"} \/ (pc = "returned" /\ fault = "none")) =>
          exhausted \subseteq failed_ids
    /\ exhausted \cap successful_ids = {}
    /\ exhausted \cap handed = {}

\* C9: item and batch failures do not stop the run.  As long as no interrupt and no
\* failing commit of the ScrapeLog occurs, the run always has a next step, no
\* error_message is set, each batch in which an item or the persistence failed gets its
\* checkpoint, and the run ends only through the final log update, after every batch
\* from the starting one was processed or skipped.
C9_FailuresDoNotStop ==
    fault = "none" =>
        /\ pc # "crashed"
        /\ scrape_log.error_message = "null"
        /\ pc \in TryBlock => ENABLED RunStep
        /\ \A k \in failedIn : (k < batch_idx \/ pc = "logupdate") => k \in checkpointed
        /\ pc = "returned" =>
              /\ scrape_log.end_time
              /\ \A k \in start_batch..(total_batches - 1) : k \in checkpointed \cup skippedB

\* a run ended normally after a persistence failure in its first batch, a checkpoint of
\* its second batch, and a fetch that exhausted its attempts
C9_Witness ==
    /\ fault = "none"
    /\ pc = "returned"
    /\ 0 \in failedIn
    /\ 1 \in checkpointed
    /\ persist_result = "failed"
    /\ exhausted # {}

\* C10: aborting from every state.  A run that an interrupt or an unhandled exception
\* ended has end_time and error_message set in its ScrapeLog and has passed a final
\* record to _save_progress.
C10_AbortFromAnywhere ==
    (fault # "none" /\ pc \in {"returned", "crashed"}) =>
        /\ scrape_log.end_time
        /\ scrape_log.error_message # "null"
        /\ saved # << >>

\* the run was aborted inside the try block: a handler and the finally clause ran
Aborted == fault # "none" /\ pc \in {"returned", "crashed"} /\ saved # << >>

\* C11: abort flushes decided outcomes.  The final record of a run aborted inside the
\* batch loop has the larger of the loaded cursor and the cursor of the last checkpoint
\* of the run, and its sets hold every identifier of the loaded record and of every
\* checkpoint of the run, each in the set it was in.
C11_AbortFlushes ==
    Aborted =>
        LET n == Len(saved)
            final == saved[n]
            before == IF n = 1 THEN loaded ELSE saved[n - 1]
        IN  /\ final.last_processed_idx =
                  Max(loaded.last_processed_idx, before.last_processed_idx)
            /\ SuccOf(loaded) \subseteq SuccOf(final)
            /\ FailOf(loaded) \subseteq FailOf(final)
            /\ \A k \in 1..(n - 1) :
                  /\ SuccOf(saved[k]) \subseteq SuccOf(final)
                  /\ FailOf(saved[k]) \subseteq FailOf(final)
            /\ successful_ids \subseteq SuccOf(final)
            /\ failed_ids \subseteq FailOf(final)

\* a resumed run wrote a checkpoint with new outcomes and was then interrupted
C11_Witness ==
    /\ Aborted
    /\ fault = "interrupt"
    /\ Len(saved) = 2
    /\ MarkedIn(loaded) # {}
    /\ MarkedIn(saved[1]) # MarkedIn(loaded)

\* C12: an aborted run is reported to the caller as failed.  When process_batches
\* returns normally to main, the run reached the final log update and no error_message
\* is recorded; an aborted run leaves process_batches by an exception.
C12_AbortReported ==
    pc = "returned" => (fault = "none" /\ scrape_log.error_message = "null")

\* the file holds a complete ProgressRecord
CompleteFile == json_parses(file) /\ HasKeys(json_load(file))

\* C13: a missing, unreadable or incomplete progress file is a fresh start.  No run ends
\* in the load of the progress, and a run that loaded from anything but a complete
\* record has the zero-valued record and starts at batch 0.
C13_LoadCorruptIsFresh ==
    /\ fault # "load"
    /\ (pc = "loop" /\ saved = << >> /\ ~CompleteFile) =>
          (loaded = ZeroProgress /\ start_batch = 0)

\* C14: save and load round trip.  Once a record was passed to _save_progress, what
\* _load_progress reads from the file has the cursor and the two sets of the latest such
\* record, and the file holds that record's text only; and a run that has loaded and not
\* yet saved holds what _load_progress reads from the file.
C14_SaveLoadRoundTrip ==
    /\ saved # << >> =>
          LET s == saved[Len(saved)]
              r == _load_progress(file)
          IN  /\ HasKeys(r)
              /\ r.last_processed_idx = s.last_processed_idx
              /\ SuccOf(r) = SuccOf(s)
              /\ FailOf(r) = FailOf(s)
              /\ Len(file) = Len(json_dump(s))
    /\ (Loaded /\ saved = << >>) => loaded = _load_progress(file)

\* a later invocation has loaded a record with a cursor and marked identifiers that an
\* earlier one saved
C14_Witness ==
    /\ Loaded
    /\ saved = << >>
    /\ prev.outcome # "none"
    /\ loaded.last_processed_idx >= 0
    /\ SuccOf(loaded) # {}
    /\ FailOf(loaded) # {}

\* C15: _save_progress overwrites atomically.  After a record was passed to
\* _save_progress, also when the process was killed inside the call, the next
\* _load_progress reads that record or the one the file held before.
C15_AtomicOverwrite ==
    saved # << >> =>
        LET n == Len(saved)
            r == _load_progress(file)
        IN  \/ r = saved[n]
            \/ r = (IF n = 1 THEN loaded ELSE saved[n - 1])

\* no request of the first n attempts got a 200
AllFailed(n) == \A j \in 1..n : responses[j] # "200"

\* what holds of get_page at every moment of a call
GetPageBounded ==
    /\ attempts <= retries
    /\ html_content \in {"pending", "content", "None"}
    /\ html_content = "content" => (responses[attempts] = "200" /\ AllFailed(attempts - 1))
    /\ html_content = "None" => (attempts = retries /\ AllFailed(retries))
    /\ (html_content # "pending" /\ AllFailed(retries)) => html_content = "None"
    /\ (html_content # "pending" /\ retries = Retries) =>
          get_page(responses) = [content |-> html_content = "content", attempts |-> attempts]

\* C16: bounded retry.  get_page makes at most `retries` requests, returns the content at
\* the first 200 without a further request, returns None exactly when all `retries`
\* requests failed, raises nothing, and every call returns.
C16_BoundedRetry == []GetPageBounded /\ <>(html_content # "pending")

\* a call returned the content of its second request, after a failed first one
C16_Witness ==
    /\ html_content = "content"
    /\ retries = Retries
    /\ attempts = 2
    /\ responses[3] = "error"

\* ------------------------------------------------- the persistence gateway
\* the identifiers that have a row
StoredIds(st) == { i \in RowIds : st[i] # NoRow }

\* the dict of a save_bacteria call, and whether it names a stored record
TheMap == call.data[1]

NamesExisting(d) == "bacteria_id" \in DOMAIN d /\ call.before[d["bacteria_id"]] # NoRow

NamesNew(d) == "bacteria_id" \in DOMAIN d /\ call.before[d["bacteria_id"]] = NoRow

\* the positions of the call's dicts that are for identifier id and have column c
Setting(id, c) ==
    { k \in 1..Len(call.data) : /\ "bacteria_id" \in DOMAIN call.data[k]
                                /\ call.data[k]["bacteria_id"] = id
                                /\ c \in DOMAIN call.data[k] }

LastOf(ks) == CHOOSE k \in ks : \A j \in ks : j <= k

\* C17: save_bacteria with "skip" for an identifier that has a stored record leaves
\* every field of every stored record as it was, adds and deletes no record, and
\* returns success (unless the lookup itself raised, which returns False)
C17_SkipLeavesRecord ==
    (/\ call.op = "save_bacteria"
     /\ call.duplicate_action = "skip"
     /\ NamesExisting(TheMap))
    => /\ bacteria = call.before
       /\ StoredIds(bacteria) = StoredIds(call.before)
       /\ call.failing # "query" => call.ok

C17_Witness ==
    /\ call.op = "save_bacteria"
    /\ call.duplicate_action = "skip"
    /\ call.failing = "never"
    /\ "name" \in DOMAIN TheMap
    /\ NamesExisting(TheMap)
    /\ TheMap["name"] = "B"
    /\ call.before[TheMap["bacteria_id"]].name = "A"
    /\ bacteria[TheMap["bacteria_id"]].name = "A"
    /\ call.ok

\* the calls that apply the update policy
UpdateCall ==
    \/ call.op = "_save_batch_to_db"
    \/ call.op = "save_bacteria" /\ call.duplicate_action = "update"

\* C18: after a successful call under the update policy, for every stored record the
\* call has a dict for, each field present in the dict has the new value (of the last
\* dict of the call for the identifier that has the field), each field absent keeps
\* its stored value, created_at included, and when every dict of the call is for a
\* stored record the stored records are the same ones as before
C18_UpdateOverwritesPresent ==
    (UpdateCall /\ call.ok)
    => /\ \A id \in StoredIds(call.before) :
            (Setting(id, "bacteria_id") # {})
            => /\ bacteria[id] # NoRow
               /\ bacteria[id].created_at = call.before[id].created_at
               /\ \A c \in Columns :
                     bacteria[id][c] =
                        IF Setting(id, c) = {} THEN call.before[id][c]
                        ELSE call.data[LastOf(Setting(id, c))][c]
       /\ (\A k \in 1..Len(call.data) : NamesExisting(call.data[k]))
            => StoredIds(bacteria) = StoredIds(call.before)

C18_Witness ==
    /\ UpdateCall
    /\ call.ok
    /\ NamesExisting(TheMap)
    /\ DOMAIN TheMap = {"bacteria_id", "name"}
    /\ TheMap["name"] = "B"
    /\ call.before[TheMap["bacteria_id"]].name = "A"
    /\ call.before[TheMap["bacteria_id"]].gram_stain = "P"
    /\ bacteria[TheMap["bacteria_id"]].name = "B"
    /\ bacteria[TheMap["bacteria_id"]].gram_stain = "P"

\* the row of identifier TheMap["bacteria_id"] is a fresh one with the dict's fields only
FreshFromMap ==
    LET id == TheMap["bacteria_id"] IN
    /\ bacteria[id] # NoRow
    /\ bacteria[id].created_at = "new"
    /\ \A c \in Columns :
          bacteria[id][c] = IF c \in DOMAIN TheMap THEN TheMap[c] ELSE "NULL"
    /\ \A j \in RowIds \ {id} : bacteria[j] = call.before[j]

\* C19: a successful save_bacteria with "force" for an identifier that has a stored
\* record leaves exactly one record for it, freshly inserted, with the fields of the
\* dict and nothing carried over from the old record; a successful save_bacteria for
\* an identifier without a stored record inserts one new record, whatever the policy
C19_ForceReplaces ==
    (call.op = "save_bacteria" /\ call.ok)
    => /\ (call.duplicate_action = "force" /\ NamesExisting(TheMap)) => FreshFromMap
       /\ NamesNew(TheMap)
            => /\ FreshFromMap
               /\ StoredIds(bacteria) = StoredIds(call.before) \cup {TheMap["bacteria_id"]}

C19_Witness ==
    /\ call.op = "save_bacteria"
    /\ call.duplicate_action = "force"
    /\ call.ok
    /\ NamesExisting(TheMap)
    /\ DOMAIN TheMap = {"bacteria_id", "name"}
    /\ call.before[TheMap["bacteria_id"]].gram_stain = "P"
    /\ bacteria[TheMap["bacteria_id"]].gram_stain = "NULL"
    /\ bacteria[TheMap["bacteria_id"]].created_at = "new"

\* C20: a call of save_bacteria or _save_batch_to_db that fails leaves the table as it
\* was before the call
C20_FailedCallLeavesStorage ==
    (call.op # "none" /\ ~call.ok) => bacteria = call.before

\* ------------------------------------------------- partition and decisions
\* the run has discovered its sequence and an earlier run has ended
SecondRunDiscovered == prev.outcome # "none" /\ pc \notin {"idle", "discover"}

\* C21: the batch of index k holds the identifiers at positions k*B .. min((k+1)*B, L)-1,
\* and every identifier get_bacteria_ids returned in two runs over the same remote
\* listing has the same position in both, hence the same batch index for one B
C21_PartitionStable ==
    /\ pc = "fetch" =>
          Range(batch_to_process) \subseteq
             IdsAt(BatchStart(batch_idx, batch_size),
                   BatchEnd(batch_idx, batch_size, Len(bacteria_ids)))
    /\ SecondRunDiscovered =>
          \A i \in 1..Len(bacteria_ids), j \in 1..Len(prev.ids) :
             bacteria_ids[i] = prev.ids[j] => i = j

\* the run started from the empty record, was not interrupted and reached its end
DoneFromEmpty ==
    /\ pc = "returned"
    /\ fault = "none"
    /\ scrape_log.error_message = "null"
    /\ loaded = ZeroProgress

\* C22: when a run that started from the empty record and was not interrupted is done,
\* every discovered identifier has been fetched and is in exactly one of
\* successful_ids and failed_ids
C22_DecidedOnce ==
    DoneFromEmpty =>
       \A id \in Range(bacteria_ids) :
          /\ id \in Range(fetched)
          /\ (id \in successful_ids) # (id \in failed_ids)

\* C23: every record handed to _save_batch_to_db has the key bacteria_id, and its
\* value is the identifier that was fetched for it
C23_RecordsCarryId ==
    pc = "persist" =>
       \A k \in 1..Len(batch_data) :
          /\ batch_data[k].has_id
          /\ batch_data[k].bacteria_id = local_successful[k]

\* ------------------------------------------------- reset and limit
\* C24: a run without --reset-progress loads what the file holds and fetches no
\* identifier marked successful or failed in it; a run with --reset-progress starts
\* without a file, loads cursor -1 and empty sets, starts at batch 0 and, when it is
\* done, has fetched every discovered identifier
C24_ResetReenables ==
    Loaded =>
       /\ ~reset_progress =>
             /\ Range(fetched) \cap MarkedIn(loaded) = {}
             /\ (saved = << >> /\ file # NoFile) => loaded = _load_progress(file)
       /\ reset_progress =>
             /\ loaded = ZeroProgress
             /\ last_idx = -1
             /\ start_batch = 0
             /\ saved = << >> => file = NoFile
             /\ (pc = "returned" /\ fault = "none" /\ scrape_log.error_message = "null")
                  => Range(bacteria_ids) \subseteq Range(fetched)

C24_Witness ==
    /\ reset_progress
    /\ prev.outcome = "done"
    /\ prev.ids = bacteria_ids
    /\ Len(bacteria_ids) = MaxLen
    /\ pc = "returned"
    /\ fault = "none"
    /\ Range(fetched) = Range(bacteria_ids)

\* ------------------------------------------------- skipped batches
\* the loop is at a batch whose identifiers are all in successful_ids or failed_ids
AtProcessedBatch ==
    /\ pc = "loop"
    /\ batch_idx < total_batches
    /\ Unprocessed(batch_ids, successful_ids, failed_ids) = << >>

\* C25: the step of the loop at a fully processed batch (when no interrupt arrives)
\* fetches nothing, calls no persistence, writes no progress file, updates no
\* ScrapeLog count, leaves the cursor and both sets unchanged and goes on with the
\* next batch
C25_SkipHasNoEffect ==
    [][(AtProcessedBatch /\ fault' = fault) =>
         /\ fetched' = fetched
         /\ dbcalls' = dbcalls /\ db' = db /\ pending' = pending
         /\ file' = file /\ saved' = saved
         /\ scrape_log' = scrape_log /\ log_db' = log_db
         /\ progress' = progress /\ last_idx' = last_idx
         /\ successful_ids' = successful_ids /\ failed_ids' = failed_ids
         /\ batch_idx' = batch_idx + 1
         /\ pc' = "loop"]_vars

C25_Witness ==
    /\ skippedB # {}
    /\ pc = "returned"
    /\ fault = "none"
    /\ fetched # << >>

\* ------------------------------------------------- the ScrapeLog
\* the run is between two batches, or inside one before its checkpoint
BetweenCheckpoints == pc \in {"loop", "fetch", "persist", "checkpoint"}

\* the committed counts are the sizes of the two sets of record r
CountsOf(r) ==
    /\ log_db.successful_scrapes = Cardinality(SuccOf(r))
    /\ log_db.failed_scrapes = Cardinality(FailOf(r))

\* C26: a run has one ScrapeLog, created when it starts: every later commit writes
\* that object; and once the step of a processed batch is complete the committed
\* counts are the sizes of successful_ids and failed_ids of the record checkpointed
\* for that batch (zero before the first processed batch), so a crash then leaves
\* the counts as of that batch
C26_LogTracksBatches ==
    /\ [](BetweenCheckpoints =>
            IF checkpointed = {}
            THEN log_db.successful_scrapes = 0 /\ log_db.failed_scrapes = 0
            ELSE CountsOf(saved[Len(saved)]))
    /\ [][IF pc \in {"idle", "returned", "crashed"}
          THEN log_db' = NewLog /\ scrape_log' = NewLog
          ELSE log_db' = log_db \/ log_db' = scrape_log']_vars

C26_Witness ==
    /\ pc = "loop"
    /\ Cardinality(checkpointed) = 2
    /\ log_db.successful_scrapes = 1
    /\ log_db.failed_scrapes = 1
    /\ CountsOf(saved[Len(saved)])

\* ------------------------------------------------- spacing of requests
\* the positions of the requests in the timeline, and the number of a request
Requests == { i \in 1..Len(timeline) : timeline[i] = "request" }

Nth(i) == Cardinality({ j \in Requests : j <= i })

\* C27: in a call of get_page every request, the first included, directly follows a
\* wait of delay; every failed request is directly followed by a further wait, before
\* the next request or before None is returned; so no two requests are adjacent
C27_Spacing ==
    /\ Cardinality(Requests) = attempts
    /\ \A i \in Requests :
          /\ i > 1
          /\ timeline[i - 1] = "sleep"
          /\ responses[Nth(i)] # "200" => (i < Len(timeline) /\ timeline[i + 1] = "sleep")
    /\ (html_content = "None" /\ attempts > 0) => timeline[Len(timeline)] = "sleep"

C27_Witness ==
    /\ html_content = "None"
    /\ attempts = Retries
    /\ timeline = << "sleep", "request", "sleep", "sleep", "request", "sleep",
                     "sleep", "request", "sleep" >>

\* C28: with a maximum count m (any integer, 0 included) the run works on exactly the
\* first min(m, L) identifiers of the discovered sequence, in order, and fetches and
\* marks no other; without a maximum it works on all of them
C28_TruncatesToMax ==
    pc \notin {"idle", "discover"} =>
       /\ bacteria_ids =
             IF max_bacteria.given
             THEN SubSeq(listing, 1, Max(0, Min(max_bacteria.value, Len(listing))))
             ELSE listing
       /\ Range(fetched) \subseteq Range(bacteria_ids)

\* ------------------------------------------------- interrupts and persistence
\* the run was interrupted while _save_batch_to_db was applying batch_data, and the
\* abort path has run
InterruptedInSave ==
    /\ fault = "interrupt"
    /\ pc \in {"returned", "crashed"}
    /\ batch_data # << >>
    /\ item > Len(batch_to_process)
    /\ persist_result = "none"

\* the identifiers of batch_data whose row was written since the call began
WrittenOfBatch ==
    { i \in Ids : /\ \E k \in 1..Len(batch_data) :
                        batch_data[k].has_id /\ batch_data[k].bacteria_id = i
                  /\ db[i] # db_begin[i] }

\* C29: after an interrupt inside _save_batch_to_db and the abort path, the rows of
\* all records of the batch (those that have an identifier) are committed or of none
C29_NoPartialCommit ==
    InterruptedInSave =>
       \/ WrittenOfBatch = {}
       \/ \A k \in 1..Len(batch_data) :
             batch_data[k].has_id => batch_data[k].bacteria_id \in WrittenOfBatch

\* the identifiers that have a committed row
CommittedIds == { i \in Ids : db[i] # "none" }

\* C30: in a run started from the empty record, interrupted or not, every identifier
\* in successful_ids, in memory and in every record the run has written, was handed
\* to a _save_batch_to_db call and has a committed row
C30_SuccessIsPersisted ==
    (Loaded /\ loaded = ZeroProgress) =>
       /\ successful_ids \subseteq CommittedIds \cap handed
       /\ \A k \in 1..Len(saved) : SuccOf(saved[k]) \subseteq CommittedIds \cap handed
       /\ saved # << >> => SuccOf(_load_progress(file)) \subseteq CommittedIds

C30_Witness ==
    /\ loaded = ZeroProgress
    /\ fault = "interrupt"
    /\ pc = "returned"
    /\ saved # << >>
    /\ SuccOf(saved[Len(saved)]) # {}
    /\ Len(bacteria_ids) > Cardinality(CommittedIds)

\* ------------------------------------------------- growth of the outcome sets
\* record r holds every identifier of record q, each in the set it has in q
Extends(r, q) == SuccOf(q) \subseteq SuccOf(r) /\ FailOf(q) \subseteq FailOf(r)

\* C31: every record a run writes (checkpoints and final flush) holds, set by set,
\* every identifier of the loaded record and of the record written before it: no
\* identifier leaves a set
C31_SetsOnlyGrow ==
    /\ \A k \in 1..Len(saved) : Extends(saved[k], loaded)
    /\ \A k \in 1..(Len(saved) - 1) : Extends(saved[k + 1], saved[k])
    /\ Loaded => /\ SuccOf(loaded) \subseteq successful_ids
                 /\ FailOf(loaded) \subseteq failed_ids

C31_Witness ==
    /\ MarkedIn(loaded) # {}
    /\ Len(saved) = 2
    /\ MarkedIn(saved[1]) # MarkedIn(loaded)
    /\ Extends(saved[2], saved[1])

\* C32: within one run scrape_bacteria is called at most once for an identifier
C32_OneFetchPerId ==
    \A i, j \in 1..Len(fetched) : fetched[i] = fetched[j] => i = j

\* the run reached its end without an abort: lines 176-180 committed the final log
Done == pc = "returned" /\ fault = "none" /\ scrape_log.error_message = "null"

\* the site lists no identifier twice and the maximum count, if any, is not negative
PlainInputs ==
    /\ \A i, j \in 1..Len(listing) : listing[i] = listing[j] => i = j
    /\ max_bacteria.value >= 0

\* C33: when a run is done, fresh or resumed, with or without a maximum count, the
\* counts of the committed ScrapeLog add up to its total (stated here for listings
\* without repeats, where every identifier is in at most one of the two sets)
C33_TotalsAddUp ==
    (Done /\ PlainInputs) =>
       log_db.successful_scrapes + log_db.failed_scrapes = log_db.total_urls

====
